---- MODULE Spec2Model ----
(***************************************************************************)
(* Horary Master: the ChartDatabase store (src/backend/horary_master_gui.py)*)
(* and the shell operations that write to the same SQLite file, the        *)
(* notebook editor (NotebookView), the chart wheel (ChartWheelCanvas), the  *)
(* chart detail page (ChartDetailPage) and the calculation worker           *)
(* (HoraryCalculationWorker).                                               *)
(*                                                                         *)
(* Text values (question, location, title) are sequences of one-character  *)
(* strings, so that stripping is computed.  Date strings are sequences of   *)
(* numbers <<month, day, separator, second>> (plus <<46, fraction>> when    *)
(* the datetime has microseconds); every field of the real strings is       *)
(* zero-padded to a fixed width, so comparing these sequences               *)
(* lexicographically is exactly SQLite's memcmp of the two TEXT values.     *)
(* The separator is the character code: 32 for the blank that SQLite's      *)
(* CURRENT_TIMESTAMP writes, 84 for the "T" that datetime.isoformat writes. *)
(***************************************************************************)
EXTENDS Integers, Sequences, FiniteSets, TLC

\* ---------------------------------------------------------------- bounds
MaxCharts == 2        \* rows the charts table may hold at once
MaxId == 2            \* highest AUTOINCREMENT id handed out
MaxEntries == 2       \* rows the notebook_entries table may hold at once
MaxClock == 3         \* last instant of the modelled period
SecsPerDay == 2       \* instants per calendar day
DaysPerMonth == 2     \* days per calendar month

SecsPerMonth == SecsPerDay * DaysPerMonth

\* ------------------------------------------------------------- state
VARIABLES
    columns,     \* PRAGMA table_info(charts): the column names of charts
    charts,      \* rows of table charts
    chartSeq,    \* sqlite_sequence entry of charts (AUTOINCREMENT)
    entries,     \* rows of table notebook_entries
    entrySeq,    \* sqlite_sequence entry of notebook_entries
    clock,       \* the current instant (UTC; the local zone is UTC)
    ret,         \* the last call: its operation, arguments and outcome
    canvas,      \* ChartWheelCanvas: chart_data and the pending update() request
    painted,     \* what the last painting call left on its painter
    current_entry_id,  \* NotebookView.current_entry_id
    entry_list,  \* NotebookView.entry_list: the ids of its items and the selected one
    detail,      \* ChartDetailPage: chart_data and notes_info_label
    storage,     \* what sqlite3 finds at db_path: a database it can open and read, or not
    worker       \* HoraryCalculationWorker: its engine and the signals of the last call

vars == <<columns, charts, chartSeq, entries, entrySeq, clock, ret,
          canvas, painted, current_entry_id, entry_list, detail, storage, worker>>

\* ------------------------------------------------------ Python / SQLite
None == [none |-> TRUE]       \* Python None as a returned object
NoId == -1                    \* Python None / SQL NULL where an id is expected

\* dict.get(key, default)
Get(d, k, default) == IF k \in DOMAIN d THEN d[k] ELSE default

IsSpace(c) == c \in {" ", "\t", "\n"}

RECURSIVE lstrip(_)
lstrip(s) == IF s # <<>> /\ IsSpace(Head(s)) THEN lstrip(Tail(s)) ELSE s

RECURSIVE rstrip(_)
rstrip(s) ==
    IF s # <<>> /\ IsSpace(s[Len(s)]) THEN rstrip(SubSeq(s, 1, Len(s) - 1)) ELSE s

\* str.strip()
strip(s) == rstrip(lstrip(s))

\* json.dumps(value): a text that parses back to value
json_dumps(v) == [json |-> v]
\* a stored text is falsy when it is NULL or ''
IsEmptyText(t) == "empty" \in DOMAIN t
\* json.loads raises JSONDecodeError on a text that is not JSON
JsonDecodes(t) == "json" \in DOMAIN t
json_loads(t) == t.json

\* memcmp order of two TEXT values, a < b
RECURSIVE StrLess(_, _)
StrLess(a, b) ==
    IF b = <<>> THEN FALSE
    ELSE IF a = <<>> THEN TRUE
    ELSE IF Head(a) # Head(b) THEN Head(a) < Head(b)
    ELSE StrLess(Tail(a), Tail(b))

StrLE(a, b) == a = b \/ StrLess(a, b)

\* calendar fields of an instant
MonthOf(t) == (t \div SecsPerMonth) + 1
DayOf(t) == ((t % SecsPerMonth) \div SecsPerDay) + 1
SecOf(t) == t % SecsPerDay

\* SQLite CURRENT_TIMESTAMP: 'YYYY-MM-DD HH:MM:SS' in UTC
CURRENT_TIMESTAMP(t) == <<MonthOf(t), DayOf(t), 32, SecOf(t)>>

\* datetime.isoformat(): 'YYYY-MM-DDTHH:MM:SS' and '.ffffff' when microsecond # 0
isoformat(dt) ==
    <<MonthOf(dt.t), DayOf(dt.t), 84, SecOf(dt.t)>>
        \o (IF dt.us # 0 THEN <<46, dt.us>> ELSE <<>>)

\* a datetime value: the instant t and the microsecond field us
datetime(t, us) == [t |-> t, us |-> us]

\* datetime.replace(day=1, hour=0, minute=0, second=0, microsecond=0)
first_of_month(dt) == datetime(dt.t - (dt.t % SecsPerMonth), 0)

\* all orders of the rows of a set (a result set before ORDER BY)
Orderings(S) ==
    {s \in [1..Cardinality(S) -> S] : \A r \in S : \E i \in 1..Cardinality(S) : s[i] = r}

\* ORDER BY timestamp DESC: rows with equal timestamps come in any order
OrderByTimestampDesc(S) ==
    {s \in Orderings(S) :
        \A i \in 1..Len(s) : \A j \in 1..Len(s) :
            i < j => StrLE(s[j].timestamp, s[i].timestamp)}

\* ORDER BY timestamp ASC
OrderByTimestampAsc(S) ==
    {s \in Orderings(S) :
        \A i \in 1..Len(s) : \A j \in 1..Len(s) :
            i < j => StrLE(s[i].timestamp, s[j].timestamp)}

\* LIMIT n: a negative n is no limit at all
Limit(s, n) == IF n < 0 \/ n >= Len(s) THEN s ELSE SubSeq(s, 1, n)

\* ------------------------------------------------------------- schema
CurrentColumns ==
    {"id", "question", "location", "timestamp", "judgment", "confidence",
     "chart_data", "notes", "tags", "category"}

\* the charts table of the version before the category column was added
LegacyColumns == CurrentColumns \ {"category"}

\* a statement naming a column the table lacks fails (sqlite3.OperationalError)
SqlOk(cols) == cols \subseteq columns

\* sqlite3.connect(self.db_path) raises when the file cannot be opened
ConnectRaises == storage = "unopenable"
\* connect returns, and every cursor.execute raises (sqlite3.DatabaseError),
\* when the file is not a database SQLite can read
ExecuteRaises == storage = "unreadable"


\* ------------------------------------------------------------- inputs
ResultYes == [judgment |-> "YES", confidence |-> 82]
ResultNo == [judgment |-> "NO", confidence |-> 40]
ResultUnclear == [judgment |-> "UNCLEAR", confidence |-> 0]
ResultNoJudgment == [confidence |-> 100]

\* the calls of save_chart that are made
SaveChartArgs ==
    {[question |-> <<"Q">>, location |-> <<"L">>, result |-> ResultYes, category |-> "general"],
     [question |-> <<" ", "Q">>, location |-> <<"L">>, result |-> ResultNo, category |-> "career"],
     [question |-> <<"Q">>, location |-> <<"L">>, result |-> ResultNoJudgment, category |-> "general"],
     [question |-> <<>>, location |-> <<"L">>, result |-> ResultYes, category |-> "general"],
     [question |-> <<"Q">>, location |-> <<" ">>, result |-> ResultNo, category |-> "general"]}

Limits == {-1, 0, 1, MaxCharts}
ChartIds == 0..(MaxId + 1)

\* midnight and the last microsecond of the day of instant t
\* (datetime.combine(date, datetime.min.time()) and ... datetime.max.time())
DayStart(t) == datetime(t - (t % SecsPerDay), 0)
DayEnd(t) == datetime(t - (t % SecsPerDay) + SecsPerDay - 1, 999999)

\* the (start_date, end_date) pairs get_charts_by_date_range is called with:
\* two datetimes of second precision, or the two ends of one calendar day
DateRanges ==
    {[start |-> datetime(a, 0), end |-> datetime(b, 0)] :
        a \in {0, 1}, b \in {1, SecsPerDay, MaxClock}}
    \cup {[start |-> DayStart(t), end |-> DayEnd(t)] : t \in {0, SecsPerDay}}

Titles == {<<>>, <<"T">>}
NotebookCategories == {"general", "career"}

\* ------------------------------------------------- ChartDatabase.__init__
\* a legacy row: written by the version whose charts table had no category
LegacyRow(id, t, result) ==
    [id |-> id, question |-> <<"Q">>, location |-> <<"L">>,
     timestamp |-> CURRENT_TIMESTAMP(t),
     judgment |-> result.judgment, confidence |-> result.confidence,
     chart_data |-> json_dumps(result), notes |-> <<>>, tags |-> json_dumps(<<>>)]

\* the file horary_charts.db as the application finds it at time t
NoDatabase == [exists |-> FALSE]
LegacyDatabases(t) ==
    {[exists |-> TRUE, columns |-> LegacyColumns, charts |-> rows, chartSeq |-> 2] :
        rows \in {{},
                  {LegacyRow(1, 0, ResultYes)},
                  {LegacyRow(2, t, ResultNo)},
                  {LegacyRow(1, 0, ResultYes), LegacyRow(2, t, ResultNo)},
                  {LegacyRow(1, 0, ResultUnclear), LegacyRow(2, 0, ResultYes)}}}

\* init_database as it would be if the AUTOINCREMENT sequence of an existing
\* table started again at every start
init_databaseNewSequence(db) ==
    IF db.exists THEN [db EXCEPT !.chartSeq = 0]
    ELSE [exists |-> TRUE, columns |-> CurrentColumns, charts |-> {}, chartSeq |-> 0]

\* CREATE TABLE IF NOT EXISTS charts (...): an existing table is left as it is
init_database(db) ==
    IF db.exists THEN db
    ELSE [exists |-> TRUE, columns |-> CurrentColumns, charts |-> {}, chartSeq |-> 0]

\* HORARY_ENGINE_AVAILABLE after the import of horary_engine at module load
Engines == {"HoraryEngine", "None"}

\* the application is constructed on the database file db at instant t, with
\* the worker's engine as initialize_engine left it
Constructed(db, t, engine) ==
    /\ clock = t
    /\ columns = init_database(db).columns
    /\ charts = init_database(db).charts
    /\ chartSeq = init_database(db).chartSeq
    /\ entries = {}
    /\ entrySeq = 0
    /\ ret = [op |-> "init_database"]
    /\ canvas = [chart_data |-> None, update |-> FALSE]
    /\ painted = [op |-> "", record |-> None, pen |-> "", prims |-> <<>>, raised |-> ""]
    /\ current_entry_id = NoId
    /\ entry_list = [items |-> {}, selected |-> NoId]
    /\ detail = [chart_data |-> None, notes_info_label |-> ""]
    /\ storage = "ok"
    /\ worker = [engine |-> engine, signals |-> <<>>]

\* the application starts on the database file db at instant t
Opened(db, t) == Constructed(db, t, "HoraryEngine")

\* first start: there is no database file yet
InitFresh == \E t \in 0..1 : Opened(NoDatabase, t)

\* start on a file written by the earlier version
InitLegacy == \E t \in 0..1 : \E db \in LegacyDatabases(t) : Opened(db, t)

Init == InitFresh \/ InitLegacy

\* a stored text that json.loads rejects (json.JSONDecodeError)
Malformed == [malformed |-> TRUE]

\* a row of the current schema whose chart_data and tags texts are as given
CorruptRow(id, t, chart_data, tags) ==
    [id |-> id, question |-> IF id = 1 THEN <<"Q">> ELSE <<"R">>, location |-> <<"L">>,
     timestamp |-> CURRENT_TIMESTAMP(t),
     judgment |-> "NO", confidence |-> 40,
     chart_data |-> chart_data, notes |-> <<>>, tags |-> tags,
     category |-> "career"]

\* the file horary_charts.db after some stored text was damaged
CorruptDatabases(t) ==
    {[exists |-> TRUE, columns |-> CurrentColumns, charts |-> rows,
      chartSeq |-> Cardinality(rows)] :
        rows \in {{CorruptRow(1, 0, Malformed, json_dumps(<<"tag">>))},
                  {CorruptRow(1, 0, json_dumps(ResultNo), Malformed)},
                  {CorruptRow(1, 0, Malformed, json_dumps(<<"tag">>)),
                   CorruptRow(2, t, json_dumps(ResultNo), Malformed)},
                  {CorruptRow(1, 0, json_dumps(ResultNo), json_dumps(<<"tag">>)),
                   CorruptRow(2, t, json_dumps(ResultNo), Malformed)}}}

\* start on a file holding damaged rows
InitCorrupt == \E t \in 0..1 : \E db \in CorruptDatabases(t) : Opened(db, t)

\* ------------------------------------------------------------ save_chart
\* InsertChart as it would be if the texts were normalised before the write
InsertChartStripped(question, location, judgment, confidence, chart_data, notes, tags_str, category) ==
    [id |-> chartSeq + 1,
     question |-> strip(question), location |-> strip(location),
     timestamp |-> CURRENT_TIMESTAMP(clock),
     judgment |-> judgment, confidence |-> confidence,
     chart_data |-> chart_data, notes |-> notes, tags |-> tags_str,
     category |-> category]

\* the row INSERT INTO charts (...) VALUES (?, ?, ?, ?, ?, ?, ?, ?) adds
InsertChart(question, location, judgment, confidence, chart_data, notes, tags_str, category) ==
    [id |-> chartSeq + 1,
     question |-> question, location |-> location,
     timestamp |-> CURRENT_TIMESTAMP(clock),
     judgment |-> judgment, confidence |-> confidence,
     chart_data |-> chart_data, notes |-> notes, tags |-> tags_str,
     category |-> category]

InsertChartColumns ==
    {"question", "location", "judgment", "confidence", "chart_data", "notes", "tags", "category"}

save_chart(question, location, result, notes, tags, category) ==
    LET chart_data == json_dumps(result)
        judgment == Get(result, "judgment", "UNKNOWN")
        confidence == Get(result, "confidence", 0)
        tags_str == IF tags # <<>> THEN json_dumps(tags) ELSE json_dumps(<<>>)
        call == [op |-> "save_chart", question |-> question, location |-> location,
                 result |-> result, category |-> category]
    IN  IF ConnectRaises
        THEN \* no connection was opened
             /\ ret' = call @@ [raised |-> "OperationalError", id |-> NoId, conn |-> "none"]
             /\ UNCHANGED <<charts, chartSeq>>
        ELSE IF ExecuteRaises \/ ~SqlOk(InsertChartColumns)
        THEN \* cursor.execute raises; nothing was written, and conn.close()
             \* (line 160) is not reached
             /\ ret' = call @@ [raised |-> IF ExecuteRaises THEN "DatabaseError"
                                           ELSE "OperationalError",
                                id |-> NoId, conn |-> "open"]
             /\ UNCHANGED <<charts, chartSeq>>
        ELSE /\ Cardinality(charts) < MaxCharts
             /\ chartSeq < MaxId
             /\ charts' = charts \cup
                    {InsertChart(question, location, judgment, confidence,
                                 chart_data, notes, tags_str, category)}
             /\ chartSeq' = chartSeq + 1
             /\ ret' = call @@ [raised |-> "", id |-> chartSeq + 1, conn |-> "closed"]

SaveChart ==
    \E a \in SaveChartArgs :
        /\ save_chart(a.question, a.location, a.result, <<>>, <<>>, a.category)
        /\ UNCHANGED <<worker, storage, detail, entry_list, canvas, painted, current_entry_id, columns, entries, entrySeq, clock>>

\* the one call of save_chart made while the notebook is exercised
SaveChartForNote ==
    /\ save_chart(<<"Q">>, <<"L">>, ResultYes, <<>>, <<>>, "general")
    /\ UNCHANGED <<worker, storage, detail, entry_list, canvas, painted, current_entry_id, columns, entries, entrySeq, clock>>

\* -------------------------------------------------------------- get_chart
EmptyDict == <<>>
EmptyList == <<>>

\* FetchChartRows as it would be without the WHERE clause
FetchChartRowsNoWhere(chart_id) == charts

\* the rows SELECT ... FROM charts WHERE id = ? yields
FetchChartRows(chart_id) == {r \in charts : r.id = chart_id}

\* get_chart as it would be if a text that does not decode were left to the
\* outer handler (except Exception: return None)
get_chartUndecoded(chart_id) ==
    LET hasCategory == "category" \in columns
        selected == {"question", "location", "timestamp", "judgment", "confidence",
                     "chart_data", "notes", "tags"}
                        \cup (IF hasCategory THEN {"category"} ELSE {})
    IN  IF ConnectRaises \/ ExecuteRaises \/ ~SqlOk(selected) THEN None
        ELSE IF FetchChartRows(chart_id) = {} THEN None
        ELSE LET row == CHOOSE r \in FetchChartRows(chart_id) : TRUE
                 decoded ==
                     /\ IsEmptyText(row.chart_data) \/ JsonDecodes(row.chart_data)
                     /\ IsEmptyText(row.tags) \/ JsonDecodes(row.tags)
             IN  IF ~decoded THEN None
                 ELSE [id |-> chart_id,
                       question |-> row.question, location |-> row.location,
                       timestamp |-> row.timestamp,
                       judgment |-> row.judgment, confidence |-> row.confidence,
                       chart_data |-> IF IsEmptyText(row.chart_data) THEN EmptyDict
                                      ELSE json_loads(row.chart_data),
                       notes |-> row.notes,
                       tags |-> IF IsEmptyText(row.tags) THEN EmptyList
                                ELSE json_loads(row.tags),
                       category |-> IF hasCategory THEN row.category ELSE "general"]

get_chart(chart_id) ==
    LET hasCategory == "category" \in columns
        selected == {"question", "location", "timestamp", "judgment", "confidence",
                     "chart_data", "notes", "tags"}
                        \cup (IF hasCategory THEN {"category"} ELSE {})
    IN  IF ConnectRaises \/ ExecuteRaises \/ ~SqlOk(selected) THEN None
        ELSE IF FetchChartRows(chart_id) = {} THEN None
        ELSE LET row == CHOOSE r \in FetchChartRows(chart_id) : TRUE
                 decoded ==
                     /\ IsEmptyText(row.chart_data) \/ JsonDecodes(row.chart_data)
                     /\ IsEmptyText(row.tags) \/ JsonDecodes(row.tags)
                 chart_data ==
                     IF decoded /\ ~IsEmptyText(row.chart_data)
                     THEN json_loads(row.chart_data) ELSE EmptyDict
                 tags ==
                     IF decoded /\ ~IsEmptyText(row.tags)
                     THEN json_loads(row.tags) ELSE EmptyList
             IN  [id |-> chart_id,
                  question |-> row.question, location |-> row.location,
                  timestamp |-> row.timestamp,
                  judgment |-> row.judgment, confidence |-> row.confidence,
                  chart_data |-> chart_data, notes |-> row.notes, tags |-> tags,
                  category |-> IF hasCategory THEN row.category ELSE "general"]

GetChart ==
    \E chart_id \in ChartIds :
        /\ ret' = [op |-> "get_chart", chart_id |-> chart_id,
                   raised |-> IF ConnectRaises THEN "OperationalError" ELSE "",
                   conn |-> IF ConnectRaises THEN "none" ELSE "closed",
                   result |-> get_chart(chart_id)]
        /\ UNCHANGED <<worker, storage, detail, entry_list, canvas, painted, current_entry_id, columns, charts, chartSeq, entries, entrySeq, clock>>

\* ------------------------------------------------------ get_recent_charts
\* RecentChartDict as it would be without the default of the old schema
RecentChartDictNoDefault(row, hasCategory) ==
    [id |-> row.id, question |-> row.question, location |-> row.location,
     timestamp |-> row.timestamp, judgment |-> row.judgment,
     confidence |-> row.confidence,
     category |-> IF hasCategory THEN row.category ELSE "",
     tags |-> IF IsEmptyText(row.tags) THEN EmptyList ELSE json_loads(row.tags)]

\* the dict built from one row of the SELECT of get_recent_charts
RecentChartDict(row, hasCategory) ==
    [id |-> row.id, question |-> row.question, location |-> row.location,
     timestamp |-> row.timestamp, judgment |-> row.judgment,
     confidence |-> row.confidence,
     category |-> IF hasCategory THEN row.category ELSE "general",
     tags |-> IF IsEmptyText(row.tags) THEN EmptyList ELSE json_loads(row.tags)]

\* the lists get_recent_charts(limit) may return
get_recent_charts(limit) ==
    LET hasCategory == "category" \in columns
        selected == {"id", "question", "location", "timestamp", "judgment",
                     "confidence", "tags"}
                        \cup (IF hasCategory THEN {"category"} ELSE {})
    IN  IF ConnectRaises \/ ExecuteRaises \/ ~SqlOk(selected) THEN {<<>>}
        ELSE {LET rows == Limit(s, limit)
              IN  IF \E i \in 1..Len(rows) :
                         ~IsEmptyText(rows[i].tags) /\ ~JsonDecodes(rows[i].tags)
                  THEN <<>>      \* json.loads raised: except ... return []
                  ELSE [i \in 1..Len(rows) |-> RecentChartDict(rows[i], hasCategory)]
              : s \in OrderByTimestampDesc(charts)}

GetRecentCharts ==
    \E limit \in Limits : \E result \in get_recent_charts(limit) :
        /\ ret' = [op |-> "get_recent_charts", limit |-> limit,
                   raised |-> IF ConnectRaises THEN "OperationalError" ELSE "",
                   conn |-> IF ConnectRaises THEN "none" ELSE "closed",
                   result |-> result]
        /\ UNCHANGED <<worker, storage, detail, entry_list, canvas, painted, current_entry_id, columns, charts, chartSeq, entries, entrySeq, clock>>

\* ----------------------------------------------- get_charts_by_date_range
\* WHERE timestamp BETWEEN ? AND ?, both bounds bound as isoformat() texts
BetweenDates(row, start_date, end_date) ==
    /\ StrLE(isoformat(start_date), row.timestamp)
    /\ StrLE(row.timestamp, isoformat(end_date))

RangeChartDict(row, hasCategory) ==
    [id |-> row.id, question |-> row.question, location |-> row.location,
     timestamp |-> row.timestamp, judgment |-> row.judgment,
     confidence |-> row.confidence,
     category |-> IF hasCategory THEN row.category ELSE "general"]

\* the lists get_charts_by_date_range(start_date, end_date) may return
get_charts_by_date_range(start_date, end_date) ==
    LET hasCategory == "category" \in columns
        selected == {"id", "question", "location", "timestamp", "judgment", "confidence"}
                        \cup (IF hasCategory THEN {"category"} ELSE {})
    IN  IF ConnectRaises \/ ExecuteRaises \/ ~SqlOk(selected) THEN {<<>>}
        ELSE {[i \in 1..Len(s) |-> RangeChartDict(s[i], hasCategory)] :
                 s \in OrderByTimestampAsc(
                          {r \in charts : BetweenDates(r, start_date, end_date)})}

GetChartsByDateRange ==
    \E range \in DateRanges :
      \E result \in get_charts_by_date_range(range.start, range.end) :
        /\ ret' = [op |-> "get_charts_by_date_range", start_date |-> range.start,
                   end_date |-> range.end,
                   raised |-> IF ConnectRaises THEN "OperationalError" ELSE "",
                   conn |-> IF ConnectRaises THEN "none" ELSE "closed",
                   result |-> result]
        /\ UNCHANGED <<worker, storage, detail, entry_list, canvas, painted, current_entry_id, columns, charts, chartSeq, entries, entrySeq, clock>>

\* --------------------------------------------------------- get_statistics
\* JudgmentCounts as it would be without the WHERE clause
JudgmentCountsAll ==
    [j \in {r.judgment : r \in charts} |->
        Cardinality({r \in charts : r.judgment = j})]

\* SELECT judgment, COUNT(*) ... WHERE judgment IN ("YES", "NO") GROUP BY judgment
JudgmentCounts ==
    [j \in {k \in {"YES", "NO"} : \E r \in charts : r.judgment = k} |->
        Cardinality({r \in charts : r.judgment = j})]

\* sum(d.values())
RECURSIVE SumValues(_)
SumValues(d) ==
    IF DOMAIN d = {} THEN 0
    ELSE LET k == CHOOSE x \in DOMAIN d : TRUE
         IN  d[k] + SumValues([x \in DOMAIN d \ {k} |-> d[x]])

\* yes_count / total_judgments * 100 as the fraction <<numerator, denominator>>
SuccessRate(yes_count, total_judgments) ==
    IF total_judgments > 0 THEN <<yes_count * 100, total_judgments>> ELSE <<0, 1>>

\* SELECT COUNT(*) FROM charts WHERE timestamp >= ? (first_of_month.isoformat())
ThisMonth(current) ==
    Cardinality({r \in charts :
                    StrLE(isoformat(first_of_month(current)), r.timestamp)})

get_statistics ==
    LET total_charts == Cardinality(charts)
        this_month == ThisMonth(datetime(clock, 0))
        judgment_counts == JudgmentCounts
        yes_count == Get(judgment_counts, "YES", 0)
        total_judgments == SumValues(judgment_counts)
        categories ==
            IF "category" \in columns
            THEN [c \in {r.category : r \in charts} |->
                     Cardinality({r \in charts : r.category = c})]
            ELSE IF total_charts > 0 THEN [c \in {"general"} |-> total_charts]
            ELSE EmptyDict
    IN  IF ConnectRaises \/ ExecuteRaises
        THEN \* except Exception: the statistics of an empty database
             [total_charts |-> 0, this_month |-> 0, success_rate |-> <<0, 1>>,
              categories |-> EmptyDict, total_judgments |-> 0]
        ELSE [total_charts |-> total_charts,
              this_month |-> this_month,
              success_rate |-> SuccessRate(yes_count, total_judgments),
              categories |-> categories,
              total_judgments |-> total_judgments]

GetStatistics ==
    /\ ret' = [op |-> "get_statistics", now |-> clock,
               raised |-> IF ConnectRaises THEN "OperationalError" ELSE "",
               conn |-> IF ConnectRaises THEN "none" ELSE "closed",
               result |-> get_statistics]
    /\ UNCHANGED <<worker, storage, detail, entry_list, canvas, painted, current_entry_id, columns, charts, chartSeq, entries, entrySeq, clock>>

\* ----------------------------------------------------- notebook entries
save_notebook_entry(title, content, category, tags, chart_id) ==
    LET tags_str == IF tags # <<>> THEN json_dumps(tags) ELSE json_dumps(<<>>)
        current == isoformat(datetime(clock, 0))
    IN  IF ConnectRaises \/ ExecuteRaises
        THEN \* nothing was written; after connect, conn.close() (line 417)
             \* is not reached
             /\ ret' = [op |-> "save_notebook_entry", title |-> title,
                        raised |-> IF ConnectRaises THEN "OperationalError"
                                   ELSE "DatabaseError",
                        id |-> NoId,
                        conn |-> IF ConnectRaises THEN "none" ELSE "open"]
             /\ UNCHANGED <<entries, entrySeq>>
        ELSE /\ Cardinality(entries) < MaxEntries
             /\ entrySeq < MaxId
             /\ entries' = entries \cup
                    {[id |-> entrySeq + 1, title |-> title, content |-> content,
                      category |-> category, tags |-> tags_str,
                      created_date |-> current, modified_date |-> current,
                      chart_id |-> chart_id]}
             /\ entrySeq' = entrySeq + 1
             /\ ret' = [op |-> "save_notebook_entry", title |-> title,
                        raised |-> "", id |-> entrySeq + 1, conn |-> "closed"]

SaveNotebookEntry ==
    \E title \in Titles : \E category \in NotebookCategories :
      \E chart_id \in {NoId} \cup {r.id : r \in charts} :
        /\ save_notebook_entry(title, <<>>, category, <<>>, chart_id)
        /\ UNCHANGED <<worker, storage, detail, entry_list, canvas, painted, current_entry_id, columns, charts, chartSeq, clock>>

\* the calls of save_notebook_entry made while charts are saved and deleted:
\* a titled note, on no chart or on a stored chart
SaveNoteForChart ==
    \E chart_id \in {NoId} \cup {r.id : r \in charts} :
        /\ save_notebook_entry(<<"T">>, <<>>, "general", <<>>, chart_id)
        /\ UNCHANGED <<worker, storage, detail, entry_list, canvas, painted, current_entry_id, columns, charts, chartSeq, clock>>

\* OrderByModifiedDesc as it would be if the rows were ordered by created_date
OrderByCreatedDesc(S) ==
    {s \in Orderings(S) :
        \A i \in 1..Len(s) : \A j \in 1..Len(s) :
            i < j => StrLE(s[j].created_date, s[i].created_date)}

\* ORDER BY modified_date DESC
OrderByModifiedDesc(S) ==
    {s \in Orderings(S) :
        \A i \in 1..Len(s) : \A j \in 1..Len(s) :
            i < j => StrLE(s[j].modified_date, s[i].modified_date)}

\* the lists get_notebook_entries(category) may return; a falsy category
\* (None or '') selects every entry
get_notebook_entries(category) ==
  IF ConnectRaises \/ ExecuteRaises THEN {<<>>}    \* the call raises: no list
  ELSE
    {[i \in 1..Len(s) |->
        [id |-> s[i].id, title |-> s[i].title, content |-> s[i].content,
         category |-> s[i].category,
         tags |-> IF IsEmptyText(s[i].tags) THEN EmptyList ELSE json_loads(s[i].tags),
         created_date |-> s[i].created_date, modified_date |-> s[i].modified_date,
         chart_id |-> s[i].chart_id]] :
        s \in OrderByModifiedDesc(
                 {e \in entries : category = "" \/ e.category = category})}

GetNotebookEntries ==
    \E category \in {""} \cup NotebookCategories :
      \E result \in get_notebook_entries(category) :
        /\ ret' = [op |-> "get_notebook_entries", category |-> category,
                   raised |-> IF ConnectRaises THEN "OperationalError"
                              ELSE IF ExecuteRaises THEN "DatabaseError" ELSE "",
                   conn |-> IF ConnectRaises THEN "none"
                            ELSE IF ExecuteRaises THEN "open" ELSE "closed",
                   result |-> result]
        /\ UNCHANGED <<worker, storage, detail, entry_list, canvas, painted, current_entry_id, columns, charts, chartSeq, entries, entrySeq, clock>>

\* ---------------------------------------------------------- NotebookView
\* title_edit.text() when Save is pressed
EditorTitles == {<<" ">>, <<"T", " ">>}

\* NotebookView.clear_editor, reached from new_entry and delete_entry; the
\* selection of the entry list is left as it is
clear_editor == current_entry_id' = NoId

NewEntry ==
    /\ clear_editor
    /\ UNCHANGED <<worker, storage, detail, entry_list, canvas, painted, columns, charts, chartSeq, entries, entrySeq, clock, ret>>

\* the slot of entry_list.itemSelectionChanged: the current_entry_id it
\* leaves, given the ids of the selected items and the id held so far
load_selected_entry(selected_items, current) ==
    IF selected_items = {} THEN NoId      \* clear_editor()
    ELSE CHOOSE id \in selected_items : TRUE

\* the user selects another item of the list
LoadSelectedEntry ==
    \E id \in entry_list.items \ {entry_list.selected} :
        /\ entry_list' = [entry_list EXCEPT !.selected = id]
        /\ current_entry_id' = load_selected_entry({id}, current_entry_id)
        /\ UNCHANGED <<worker, storage, detail, canvas, painted, columns, charts, chartSeq, entries, entrySeq, clock, ret>>

\* load_notebook_entries with the filter on "All", given the id the editor
\* holds and the rows of notebook_entries.  entry_list.clear() clears the
\* selection model first: a selection that was not empty emits
\* itemSelectionChanged, and its slot finds no selected item.
load_notebook_entries(current, rows) ==
    [current_entry_id |->
        IF entry_list.selected # NoId THEN load_selected_entry({}, current)
        ELSE current,
     entry_list |-> [items |-> {e.id : e \in rows}, selected |-> NoId]]

\* UpdateEntry as it would be if the statement also set created_date
UpdateEntryAndCreated(id, title, content, category, tags_str, modified_date) ==
    {IF e.id = id
     THEN [e EXCEPT !.title = title, !.content = content, !.category = category,
                    !.tags = tags_str, !.modified_date = modified_date,
                    !.created_date = modified_date]
     ELSE e : e \in entries}

\* UPDATE notebook_entries SET title = ?, content = ?, category = ?, tags = ?,
\* modified_date = ? WHERE id = ?
UpdateEntry(id, title, content, category, tags_str, modified_date) ==
    {IF e.id = id
     THEN [e EXCEPT !.title = title, !.content = content, !.category = category,
                    !.tags = tags_str, !.modified_date = modified_date]
     ELSE e : e \in entries}

save_entry(text, category) ==
    LET title == strip(text)
        call == [op |-> "save_entry", text |-> text, title |-> title, raised |-> ""]
    IN  IF title = <<>>
        THEN \* "Please enter a title for the entry."
             /\ ret' = call @@ [id |-> NoId]
             /\ UNCHANGED <<entries, entrySeq, current_entry_id, entry_list>>
        ELSE IF storage # "ok"
        THEN \* the statement raises: "Failed to save entry"
             /\ ret' = call @@ [id |-> NoId, reported |-> "Error"]
             /\ UNCHANGED <<entries, entrySeq, current_entry_id, entry_list>>
        ELSE IF current_entry_id # NoId
        THEN /\ entries' = UpdateEntry(current_entry_id, title, <<>>, category,
                                       json_dumps(<<>>), isoformat(datetime(clock, 0)))
             /\ ret' = call @@ [id |-> current_entry_id]
             /\ current_entry_id' =
                    load_notebook_entries(current_entry_id, entries').current_entry_id
             /\ entry_list' =
                    load_notebook_entries(current_entry_id, entries').entry_list
             /\ UNCHANGED entrySeq
        ELSE /\ save_notebook_entry(title, <<>>, category, <<>>, NoId)
             /\ current_entry_id' =
                    load_notebook_entries(entrySeq + 1, entries').current_entry_id
             /\ entry_list' =
                    load_notebook_entries(entrySeq + 1, entries').entry_list

SaveEntry ==
    \E text \in EditorTitles : \E category \in NotebookCategories :
        /\ save_entry(text, category)
        /\ UNCHANGED <<worker, storage, detail, canvas, painted, columns, charts, chartSeq, clock>>

\* reply is the answer to the confirmation box
delete_entry(reply) ==
    IF current_entry_id = NoId
    THEN UNCHANGED <<entries, current_entry_id, entry_list, ret>>
    ELSE IF reply = "Yes" /\ storage = "ok"
    THEN /\ entries' = {e \in entries : e.id # current_entry_id}
         /\ clear_editor
         /\ entry_list' = load_notebook_entries(NoId, entries').entry_list
         /\ ret' = [op |-> "delete_entry", id |-> current_entry_id, raised |-> ""]
    ELSE UNCHANGED <<entries, current_entry_id, entry_list, ret>>

DeleteEntry ==
    \E reply \in {"Yes", "No"} :
        /\ delete_entry(reply)
        /\ UNCHANGED <<worker, storage, detail, canvas, painted, columns, charts, chartSeq, entrySeq, clock>>

\* ------------------------------------------- SettingsDialog.clear_charts
\* reply is the answer to the confirmation box
clear_charts(reply) ==
    IF reply = "Yes" /\ ~(ConnectRaises \/ ExecuteRaises)
    THEN /\ charts' = {}              \* DELETE FROM charts
         /\ entries' = {}             \* DELETE FROM notebook_entries
         /\ ret' = [op |-> "clear_charts", reply |-> reply, raised |-> ""]
    ELSE /\ UNCHANGED <<charts, entries>>
         /\ ret' = [op |-> "clear_charts", reply |-> reply, raised |-> ""]

\* ClearCharts as it would be if the DELETE also emptied sqlite_sequence
ClearChartsNewSequence ==
    \E reply \in {"Yes", "No"} :
        /\ clear_charts(reply)
        /\ chartSeq' = IF reply = "Yes" THEN 0 ELSE chartSeq
        /\ UNCHANGED <<worker, storage, detail, entry_list, canvas, painted, current_entry_id, columns, entrySeq, clock>>

ClearCharts ==
    \E reply \in {"Yes", "No"} :
        /\ clear_charts(reply)
        /\ UNCHANGED <<worker, storage, detail, entry_list, canvas, painted, current_entry_id, columns, chartSeq, entrySeq, clock>>

\* ----------------------------------------- SettingsDialog.restore_backup
\* the files the user picks in the dialog: none (cancelled), or a file that
\* is not an SQLite database
BackupFiles == {"", "notes.txt"}

\* shutil.copy2(file_path, "horary_charts.db"): the running application goes
\* on with whatever the file now holds
restore_backup(reply, file_path) ==
    IF reply = "Yes" /\ file_path # ""
    THEN /\ storage' = "unreadable"
         /\ columns' = {}
         /\ charts' = {}
         /\ entries' = {}
         /\ chartSeq' = 0
         /\ entrySeq' = 0
    ELSE UNCHANGED <<storage, columns, charts, entries, chartSeq, entrySeq>>

RestoreBackup ==
    \E reply \in {"Yes", "No"} : \E file_path \in BackupFiles :
        /\ storage = "ok"
        /\ restore_backup(reply, file_path)
        /\ ret' = [op |-> "restore_backup", reply |-> reply, file_path |-> file_path,
                   raised |-> ""]
        /\ UNCHANGED <<worker, detail, entry_list, canvas, painted, current_entry_id, clock>>

\* the file at db_path can no longer be opened: from then on
\* sqlite3.connect(self.db_path) raises sqlite3.OperationalError
ConnectFault ==
    /\ storage = "ok"
    /\ storage' = "unopenable"
    /\ UNCHANGED <<worker, detail, entry_list, canvas, painted, current_entry_id, columns, charts, chartSeq, entries, entrySeq, clock, ret>>

\* ------------------------------------------------------- ChartWheelCanvas
\* Dicts whose items are iterated (planets) are sequences of
\* [key, value] records in insertion order; other dicts are records.
HasKey(d, k) == \E i \in 1..Len(d) : d[i].key = k
Item(d, k) == d[CHOOSE i \in 1..Len(d) : d[i].key = k].value

\* the QPainter methods the canvas calls that PySide6.QtGui.QPainter has;
\* drawCircle, which the canvas calls as well, is not a method of QPainter
QPainterMethods ==
    {"setRenderHint", "setPen", "setBrush", "setFont",
     "drawLine", "drawText", "drawEllipse"}

\* QPainter(self): the current pen, the primitives drawn so far, and the
\* exception that ended the drawing ("" while none was raised)
QPainter == [pen |-> "", prims |-> <<>>, raised |-> ""]

\* a raise statement or a failing lookup: the rest of the method is skipped
Raise(p, exc) == IF p.raised # "" THEN p ELSE [p EXCEPT !.raised = exc]

\* painter.setPen(QPen(QColor(color), ...))
setPen(p, color) == IF p.raised # "" THEN p ELSE [p EXCEPT !.pen = color]

\* painter.<method>(...): the attribute is looked up on the painter, then the
\* primitive is drawn with the current pen; what names the drawing statement
Draw(p, method, what, args, text) ==
    IF p.raised # "" THEN p
    ELSE IF method \notin QPainterMethods THEN Raise(p, "AttributeError")
    ELSE [p EXCEPT !.prims =
             Append(@, [op |-> method, what |-> what, args |-> args,
                        text |-> text, pen |-> p.pen])]

\* self.width(), self.height(): the minimum size the widget is given
Width == 400
Height == 450

Min(a, b) == IF a < b THEN a ELSE b

\* lengths are kept in hundredths of a pixel
Px(n) == n * 100

\* the point center + r * (cos(radians(angle)), sin(radians(angle)))
Polar(r, angle) == <<r, angle % 360>>

\* self.rect().center()
Center == Polar(0, 0)

outer_radius == Px(Min(Width, Height) \div 2 - 30)
house_radius == (outer_radius * 75) \div 100
planet_radius == (outer_radius * 85) \div 100
aspect_radius == (planet_radius * 70) \div 100

draw_placeholder(p) ==
    LET radius == Px(Min(Width, Height) \div 2 - 20)
        p1 == setPen(p, "#ccc")
        p2 == Draw(p1, "drawCircle", "ring", Center \o <<radius>>, "")
        p3 == setPen(p2, "#999")
    IN  Draw(p3, "drawText", "caption", Center, "Chart Wheel\n(Awaiting Chart Data)")

\* the static table of the twelve signs (the glyph is named by its sign)
signs ==
    <<[glyph |-> "Aries", color |-> "#ff6b6b"], [glyph |-> "Taurus", color |-> "#4ecdc4"],
      [glyph |-> "Gemini", color |-> "#45b7d1"], [glyph |-> "Cancer", color |-> "#96ceb4"],
      [glyph |-> "Leo", color |-> "#feca57"], [glyph |-> "Virgo", color |-> "#48dbfb"],
      [glyph |-> "Libra", color |-> "#ff9ff3"], [glyph |-> "Scorpio", color |-> "#54a0ff"],
      [glyph |-> "Sagittarius", color |-> "#5f27cd"], [glyph |-> "Capricorn", color |-> "#00d2d3"],
      [glyph |-> "Aquarius", color |-> "#ff9f43"], [glyph |-> "Pisces", color |-> "#a55eea"]>>

\* for i, (glyph, name, color) in enumerate(signs), from the i-th sign on
RECURSIVE draw_signs(_, _, _, _)
draw_signs(p, outer, inner, i) ==
    IF i > Len(signs) THEN p
    ELSE LET start_angle == (i - 1) * 30 - 90
             p1 == setPen(p, signs[i].color)
             p2 == Draw(p1, "drawLine", "sector",
                        Polar(inner, start_angle) \o Polar(outer, start_angle), "")
             text_angle == start_angle + 15
             text_radius == (outer + inner) \div 2
             p3 == setPen(p2, "#333")
             p4 == Draw(p3, "drawText", "sign", Polar(text_radius, text_angle),
                        signs[i].glyph)
         IN  draw_signs(p4, outer, inner, i + 1)

draw_zodiac_wheel(p, outer, inner) ==
    LET p1 == draw_signs(p, outer, inner, 1)
        p2 == setPen(p1, "#333")
        p3 == Draw(p2, "drawCircle", "outer_circle", Center \o <<outer>>, "")
    IN  Draw(p3, "drawCircle", "inner_circle", Center \o <<inner>>, "")

\* for i, cusp in enumerate(houses), from the i-th cusp on
RECURSIVE draw_cusps(_, _, _, _)
draw_cusps(p, radius, houses, i) ==
    IF i > Len(houses) THEN p
    ELSE LET angle == houses[i] - 90
             p1 == Draw(p, "drawLine", "cusp", Center \o Polar(radius, angle), "")
             number_radius == (radius * 90) \div 100
             p2 == setPen(p1, "#333")
             p3 == Draw(p2, "drawText", "house_number",
                        Polar(number_radius, angle + 15), ToString(i))
         IN  draw_cusps(p3, radius, houses, i + 1)

draw_house_cusps(p, radius, houses) ==
    draw_cusps(setPen(p, "#666"), radius, houses, 1)

\* the glyph of a supported planet (named by its planet)
planet_glyphs ==
    [Sun |-> "Sun", Moon |-> "Moon", Mercury |-> "Mercury", Venus |-> "Venus",
     Mars |-> "Mars", Jupiter |-> "Jupiter", Saturn |-> "Saturn"]

planet_colors ==
    [Sun |-> "#ff6b35", Moon |-> "#a8dadc", Mercury |-> "#457b9d", Venus |-> "#e63946",
     Mars |-> "#f77f00", Jupiter |-> "#fcbf49", Saturn |-> "#003566"]

\* for planet_name, planet_data in planets.items(), from the i-th item on
RECURSIVE draw_planet_items(_, _, _, _)
draw_planet_items(p, radius, planets, i) ==
    IF i > Len(planets) \/ p.raised # "" THEN p
    ELSE LET planet_name == planets[i].key
             planet_data == planets[i].value
         IN  IF planet_name \notin DOMAIN planet_glyphs
             THEN draw_planet_items(p, radius, planets, i + 1)
             ELSE IF "longitude" \notin DOMAIN planet_data
             THEN Raise(p, "KeyError")
             ELSE LET longitude == planet_data.longitude
                      angle == longitude - 90
                      color == Get(planet_colors, planet_name, "#333333")
                      p1 == setPen(p, color)
                      p2 == Draw(p1, "drawEllipse", "planet_circle",
                                 Polar(radius, angle), "")
                      p3 == Draw(p2, "drawText", "glyph", Polar(radius, angle),
                                 planet_glyphs[planet_name])
                      \* f"{longitude:.1f}" followed by the degree sign
                      p4 == Draw(p3, "drawText", "degree",
                                 Polar(radius + Px(25), angle),
                                 ToString(longitude) \o ".0")
                  IN  draw_planet_items(p4, radius, planets, i + 1)

draw_planets(p, radius, planets) == draw_planet_items(p, radius, planets, 1)

aspect_colors ==
    [Conjunction |-> "#333333", Sextile |-> "#4CAF50", Square |-> "#f44336",
     Trine |-> "#2196F3", Opposition |-> "#ff9800"]

\* IsApplying as it would be if every aspect were taken as applying
IsApplyingAlways(aspect) == TRUE

\* aspect.get('applying', False)
IsApplying(aspect) == Get(aspect, "applying", FALSE)

\* for aspect in aspects, from the i-th aspect on
RECURSIVE draw_aspect_items(_, _, _, _, _)
draw_aspect_items(p, radius, aspects, planets, i) ==
    IF i > Len(aspects) \/ p.raised # "" THEN p
    ELSE LET aspect == aspects[i]
         IN  IF ~IsApplying(aspect)
             THEN draw_aspect_items(p, radius, aspects, planets, i + 1)
             ELSE IF ~({"planet1", "planet2", "aspect"} \subseteq DOMAIN aspect)
             THEN Raise(p, "KeyError")
             ELSE IF HasKey(planets, aspect.planet1) /\ HasKey(planets, aspect.planet2)
             THEN IF \/ "longitude" \notin DOMAIN Item(planets, aspect.planet1)
                     \/ "longitude" \notin DOMAIN Item(planets, aspect.planet2)
                  THEN Raise(p, "KeyError")
                  ELSE LET lon1 == Item(planets, aspect.planet1).longitude
                           lon2 == Item(planets, aspect.planet2).longitude
                           color == Get(aspect_colors, aspect.aspect, "#333333")
                           p1 == setPen(p, color)
                           p2 == Draw(p1, "drawLine", "chord",
                                      Polar(radius, lon1 - 90) \o Polar(radius, lon2 - 90),
                                      "")
                       IN  draw_aspect_items(p2, radius, aspects, planets, i + 1)
             ELSE draw_aspect_items(p, radius, aspects, planets, i + 1)

draw_aspects(p, radius, aspects, planets) ==
    draw_aspect_items(p, radius, aspects, planets, 1)

\* the object is None or an empty dict
Falsy(d) == "none" \in DOMAIN d \/ DOMAIN d = {}

draw_chart_wheel(p, record) ==
    LET p1 == setPen(p, "#f0f0f0")
        p2 == Draw(p1, "drawCircle", "background", Center \o <<outer_radius>>, "")
        p3 == draw_zodiac_wheel(p2, outer_radius, house_radius)
        payload == record.chart_data
    IN  IF p3.raised # "" THEN p3
        ELSE IF "none" \in DOMAIN payload
        THEN Raise(p3, "AttributeError")       \* None has no attribute get
        ELSE LET chart_houses == Get(payload, "houses", <<>>)
                 p4 == IF chart_houses # <<>>
                       THEN draw_house_cusps(p3, house_radius, chart_houses) ELSE p3
                 chart_planets == Get(payload, "planets", <<>>)
                 p5 == IF chart_planets # <<>>
                       THEN draw_planets(p4, planet_radius, chart_planets) ELSE p4
                 chart_aspects == Get(payload, "aspects", <<>>)
             IN  IF chart_aspects # <<>>
                 THEN draw_aspects(p5, aspect_radius, chart_aspects, chart_planets)
                 ELSE p5

\* what one paintEvent leaves on its painter when the canvas holds record
paintEvent(record) ==
    IF Falsy(record) \/ "chart_data" \notin DOMAIN record
    THEN draw_placeholder(QPainter)
    ELSE LET p == draw_chart_wheel(QPainter, record)
         IN  IF p.raised # ""
             THEN draw_placeholder([p EXCEPT !.raised = ""])   \* except Exception
             ELSE p

\* ---- the charts the wheel is given
MaxHouses == 12       \* cusps of a full chart
MaxAspects == 2       \* aspects in a list handed to draw_aspects

HouseLists == {[i \in 1..n |-> ((i - 1) * 30 + 15) % 360] : n \in {0, 1, MaxHouses}}

Sun == [key |-> "Sun", value |-> [longitude |-> 120]]
Moon == [key |-> "Moon", value |-> [longitude |-> 45]]
Pluto == [key |-> "Pluto", value |-> [longitude |-> 300]]
MoonNoLongitude == [key |-> "Moon", value |-> [sign |-> "Leo"]]

PlanetMaps ==
    {<<>>, <<Sun>>, <<Sun, Moon>>, <<Sun, Pluto>>, <<Sun, Moon, Pluto>>,
     <<Sun, MoonNoLongitude>>}

SquareApplying ==
    [planet1 |-> "Sun", planet2 |-> "Moon", aspect |-> "Square", applying |-> TRUE]
TrineSeparating ==
    [planet1 |-> "Sun", planet2 |-> "Moon", aspect |-> "Trine", applying |-> FALSE]
OppositionNoFlag ==
    [planet1 |-> "Moon", planet2 |-> "Sun", aspect |-> "Opposition"]
SextileToPluto ==
    [planet1 |-> "Sun", planet2 |-> "Pluto", aspect |-> "Sextile", applying |-> TRUE]
ConjunctionToChiron ==
    [planet1 |-> "Sun", planet2 |-> "Chiron", aspect |-> "Conjunction", applying |-> TRUE]
SquareNoPlanet1 ==
    [planet2 |-> "Moon", aspect |-> "Square", applying |-> TRUE]

AspectRecords ==
    {SquareApplying, TrineSeparating, OppositionNoFlag, SextileToPluto,
     ConjunctionToChiron, SquareNoPlanet1}

AspectLists == UNION {[1..n -> AspectRecords] : n \in 0..MaxAspects}

FullHouses == [i \in 1..MaxHouses |-> ((i - 1) * 30 + 15) % 360]

\* the objects set_chart_data is called with
WheelRecords ==
    <<None,
      EmptyDict,
      [id |-> 1, question |-> <<"Q">>],
      [id |-> 1, chart_data |-> None],
      [id |-> 1, chart_data |-> EmptyDict],
      [id |-> 1, chart_data |-> [judgment |-> "YES", confidence |-> 82]],
      [id |-> 1, chart_data |->
          [houses |-> FullHouses, planets |-> <<Sun, Pluto>>,
           aspects |-> <<SextileToPluto>>]],
      [id |-> 2, chart_data |->
          [houses |-> <<15>>, planets |-> <<Sun, Moon, Pluto>>, aspects |-> <<>>]],
      [id |-> 2, chart_data |->
          [houses |-> FullHouses, planets |-> <<Sun, Moon>>,
           aspects |-> <<TrineSeparating, ConjunctionToChiron, SquareApplying>>]],
      [id |-> 2, chart_data |->
          [houses |-> FullHouses, planets |-> <<Sun, MoonNoLongitude>>]],
      [id |-> 2, chart_data |->
          [houses |-> FullHouses, planets |-> <<Sun, Moon>>,
           aspects |-> <<SquareApplying, SquareNoPlanet1>>]]>>

set_chart_data(record) ==
    canvas' = [chart_data |-> record, update |-> TRUE]     \* self.update()

SetChartData ==
    \E i \in 1..Len(WheelRecords) :
        /\ set_chart_data(WheelRecords[i])
        /\ UNCHANGED <<worker, storage, detail, entry_list, painted, current_entry_id, columns, charts, chartSeq, entries, entrySeq, clock, ret>>

\* Qt delivers a paint event: after update(), or when the window is exposed
PaintEvent ==
    /\ painted' = [op |-> "paintEvent", record |-> canvas.chart_data]
                      @@ paintEvent(canvas.chart_data)
    /\ canvas' = [canvas EXCEPT !.update = FALSE]
    /\ UNCHANGED <<worker, storage, detail, entry_list, current_entry_id, columns, charts, chartSeq, entries, entrySeq, clock, ret>>

\* the three drawing methods applied to a painter of their own
DrawHouseCusps ==
    \E houses \in HouseLists :
        /\ painted' = [op |-> "draw_house_cusps", record |-> [houses |-> houses]]
                          @@ draw_house_cusps(QPainter, house_radius, houses)
        /\ UNCHANGED <<worker, storage, detail, entry_list, canvas, current_entry_id, columns, charts, chartSeq, entries, entrySeq, clock, ret>>

DrawPlanets ==
    \E planets \in PlanetMaps :
        /\ painted' = [op |-> "draw_planets", record |-> [planets |-> planets]]
                          @@ draw_planets(QPainter, planet_radius, planets)
        /\ UNCHANGED <<worker, storage, detail, entry_list, canvas, current_entry_id, columns, charts, chartSeq, entries, entrySeq, clock, ret>>

DrawAspects ==
    \E aspects \in AspectLists : \E planets \in PlanetMaps :
        /\ painted' = [op |-> "draw_aspects",
                       record |-> [aspects |-> aspects, planets |-> planets]]
                          @@ draw_aspects(QPainter, aspect_radius, aspects, planets)
        /\ UNCHANGED <<worker, storage, detail, entry_list, canvas, current_entry_id, columns, charts, chartSeq, entries, entrySeq, clock, ret>>

\* ------------------------------------------------------- ChartDetailPage
\* result['form_data'] as CastChartPage.on_calculation_finished fills it
FormData == [question |-> <<"Q">>, location |-> <<"L">>]

\* the results the cast page hands to on_chart_cast: what the engine returned
\* (the worker only requires a dict with a judgment), with form_data added
CastResults ==
    {[judgment |-> "YES", confidence |-> 82, form_data |-> FormData],
     [judgment |-> "NOT RADICAL", confidence |-> 100, form_data |-> FormData],
     [judgment |-> "YES", form_data |-> FormData],
     [judgment |-> "MAYBE", confidence |-> 82, form_data |-> FormData],
     [judgment |-> "NO", confidence |-> 150, form_data |-> FormData]}

\* notes_edit.toPlainText() when Save Notes is pressed
NotesTexts == {<<>>, <<" ">>, <<"N">>}

\* ChartDetailPage.set_chart_data and update_display, for a chart_data whose
\* tabs fill without error: the wheel gets the record and load_chart_notes
\* sets the label
DetailShows(chart_data) ==
    /\ detail' = [chart_data |-> chart_data,
                  notes_info_label |->
                      IF Get(chart_data, "notes", <<>>) # <<>>
                      THEN "Notes loaded from database" ELSE "No existing notes"]
    /\ set_chart_data(chart_data)

\* HoraryMasterMainWindow.on_chart_cast
on_chart_cast(result) ==
    LET question == Get(Get(result, "form_data", EmptyDict), "question", <<"Unknown">>)
        location == Get(Get(result, "form_data", EmptyDict), "location", <<"Unknown">>)
    IN  /\ save_chart(question, location, result, <<>>, <<>>, "general")
        /\ IF ret'.raised = ""
           THEN DetailShows(result @@ [id |-> ret'.id])
           ELSE UNCHANGED <<detail, canvas>>     \* "Failed to save chart"

OnChartCast ==
    \E result \in CastResults :
        /\ on_chart_cast(result)
        /\ UNCHANGED <<worker, storage, entry_list, painted, current_entry_id, columns, entries, entrySeq, clock>>

\* HoraryMasterMainWindow.show_chart_detail
show_chart_detail(chart_id) ==
    IF ~ConnectRaises /\ get_chart(chart_id) # None
    THEN DetailShows(get_chart(chart_id))
    ELSE UNCHANGED <<detail, canvas>>      \* "Chart not found in database."

ShowChartDetail ==
    \E chart_id \in ChartIds :
        /\ show_chart_detail(chart_id)
        /\ ret' = [op |-> "show_chart_detail", chart_id |-> chart_id, raised |-> ""]
        /\ UNCHANGED <<worker, storage, entry_list, painted, current_entry_id, columns, charts, chartSeq, entries, entrySeq, clock>>

\* save_chart_notes as it would be if it wrote the notes by replacing the row
\* of the chart with a row holding only the id and the notes
save_chart_notesReplacingRow(notes_content) ==
    IF Falsy(detail.chart_data) \/ "id" \notin DOMAIN detail.chart_data
    THEN /\ ret' = [op |-> "save_chart_notes", id |-> NoId, notes |-> notes_content,
                    reported |-> "Save Error", raised |-> ""]
         /\ UNCHANGED <<detail, charts>>
    ELSE IF strip(notes_content) = <<>>
    THEN /\ ret' = [op |-> "save_chart_notes", id |-> detail.chart_data.id,
                    notes |-> notes_content, reported |-> "No Content", raised |-> ""]
         /\ UNCHANGED <<detail, charts>>
    ELSE /\ ret' = [op |-> "save_chart_notes", id |-> detail.chart_data.id,
                    notes |-> notes_content, reported |-> "Success", raised |-> ""]
         /\ detail' = [detail EXCEPT !.notes_info_label = "Notes saved"]
         /\ charts' = {IF r.id = detail.chart_data.id
                       THEN [r EXCEPT !.notes = notes_content, !.judgment = "UNKNOWN",
                                      !.confidence = 0,
                                      !.chart_data = json_dumps(EmptyDict)]
                       ELSE r : r \in charts}

\* ChartDetailPage.save_chart_notes: the database write is a TODO comment
\* (lines 3639-3640); the label and the message box report success
save_chart_notes(notes_content) ==
    IF Falsy(detail.chart_data) \/ "id" \notin DOMAIN detail.chart_data
    THEN /\ ret' = [op |-> "save_chart_notes", id |-> NoId, notes |-> notes_content,
                    reported |-> "Save Error", raised |-> ""]
         /\ UNCHANGED <<detail, charts>>
    ELSE IF strip(notes_content) = <<>>
    THEN /\ ret' = [op |-> "save_chart_notes", id |-> detail.chart_data.id,
                    notes |-> notes_content, reported |-> "No Content", raised |-> ""]
         /\ UNCHANGED <<detail, charts>>
    ELSE /\ ret' = [op |-> "save_chart_notes", id |-> detail.chart_data.id,
                    notes |-> notes_content, reported |-> "Success", raised |-> ""]
         /\ detail' = [detail EXCEPT !.notes_info_label = "Notes saved"]
         /\ UNCHANGED charts

SaveChartNotes ==
    \E notes_content \in NotesTexts :
        /\ save_chart_notes(notes_content)
        /\ UNCHANGED <<worker, storage, entry_list, canvas, painted, current_entry_id, columns, chartSeq, entries, entrySeq, clock>>

\* ------------------------------------------------- HoraryCalculationWorker
\* the questions and settings calculate_chart is called with
Questions == {<<>>, <<" ">>, <<"Q">>, <<" ", "Q">>}
WorkerSettings ==
    {[location |-> <<"L">>, timezone |-> "UTC"],
     [location |-> <<"L", " ">>, timezone |-> "UTC"],
     [location |-> <<" ">>, timezone |-> "UTC"],
     [location |-> <<>>, timezone |-> "UTC"],
     [timezone |-> "UTC"]}

\* what self.engine.judge(question, settings) does when it is called: it
\* returns a dict, returns something that is no dict, or raises
EngineOutcomes ==
    {[kind |-> "dict", value |-> ResultYes],
     [kind |-> "dict", value |-> [judgment |-> "MAYBE"]],
     [kind |-> "dict", value |-> ResultNoJudgment],
     [kind |-> "dict", value |-> EmptyDict],
     [kind |-> "list", value |-> EmptyList],
     [kind |-> "raise", value |-> EmptyDict]}

\* signal.emit(...): the signal and, for a str signal, its text
Emit(signals, signal, text) == Append(signals, [signal |-> signal, text |-> text])

\* raise ... inside the try block: except Exception emits calculation_error
Failed(signals, judged, message) ==
    [signals |-> Emit(signals, "calculation_error", "Calculation failed: " \o message),
     judged |-> judged, result |-> None]

\* calculate_chart as it would be without the check for the key judgment
calculate_chartUnchecked(engine, question, settings, outcome) ==
    LET s1 == Emit(<<>>, "calculation_progress", "Initializing calculation...")
        s2 == Emit(s1, "calculation_progress", "Validating inputs...")
        s3 == Emit(s2, "calculation_progress", "Calculating chart...")
        s4 == Emit(s3, "calculation_progress", "Processing results...")
        s5 == Emit(s4, "calculation_progress", "Calculation complete!")
    IN  IF engine = "None"
        THEN Failed(s1, FALSE, "Horary engine not available")
        ELSE IF strip(question) = <<>>
        THEN Failed(s2, FALSE, "Question cannot be empty")
        ELSE IF strip(Get(settings, "location", <<>>)) = <<>>
        THEN Failed(s2, FALSE, "Location cannot be empty")
        ELSE IF outcome.kind = "raise"
        THEN Failed(s3, TRUE, "engine error")
        ELSE IF outcome.kind # "dict"
        THEN Failed(s4, TRUE, "Invalid result format from engine")
        ELSE [signals |-> Emit(s5, "calculation_finished", ""),
              judged |-> TRUE, result |-> outcome.value]

\* the signals one call emits, whether it called engine.judge, and the
\* result it emitted with calculation_finished
calculate_chart(engine, question, settings, outcome) ==
    LET s1 == Emit(<<>>, "calculation_progress", "Initializing calculation...")
        s2 == Emit(s1, "calculation_progress", "Validating inputs...")
        s3 == Emit(s2, "calculation_progress", "Calculating chart...")
        s4 == Emit(s3, "calculation_progress", "Processing results...")
        s5 == Emit(s4, "calculation_progress", "Calculation complete!")
    IN  IF engine = "None"
        THEN Failed(s1, FALSE, "Horary engine not available")
        ELSE IF strip(question) = <<>>
        THEN Failed(s2, FALSE, "Question cannot be empty")
        ELSE IF strip(Get(settings, "location", <<>>)) = <<>>
        THEN Failed(s2, FALSE, "Location cannot be empty")
        ELSE IF outcome.kind = "raise"
        THEN Failed(s3, TRUE, "engine error")
        ELSE IF outcome.kind # "dict"
        THEN Failed(s4, TRUE, "Invalid result format from engine")
        ELSE IF "judgment" \notin DOMAIN outcome.value
        THEN Failed(s4, TRUE, "Missing judgment in result")
        ELSE [signals |-> Emit(s5, "calculation_finished", ""),
              judged |-> TRUE, result |-> outcome.value]

CalculateChart ==
    \E question \in Questions : \E settings \in WorkerSettings :
      \E outcome \in EngineOutcomes :
        LET call == calculate_chart(worker.engine, question, settings, outcome)
        IN  /\ worker' = [worker EXCEPT !.signals = call.signals]
            /\ ret' = [op |-> "calculate_chart", question |-> question,
                       settings |-> settings, judged |-> call.judged,
                       outcome |-> IF call.judged THEN outcome
                                   ELSE [kind |-> "not called", value |-> EmptyDict],
                       result |-> call.result, raised |-> ""]
            /\ UNCHANGED <<storage, detail, entry_list, canvas, painted, current_entry_id, columns, charts, chartSeq, entries, entrySeq, clock>>

\* ------------------------------------------------------------------ time
Tick ==
    /\ clock < MaxClock
    /\ clock' = clock + 1
    /\ UNCHANGED <<worker, storage, detail, entry_list, canvas, painted, current_entry_id, columns, charts, chartSeq, entries, entrySeq, ret>>

\* The chart operations never read notebook_entries and the notebook
\* operations never read charts; clear_charts writes both.  The two tables
\* are therefore exercised by two specifications over the same state.
Next ==
    \/ Tick
    \/ SaveChart
    \/ GetChart
    \/ GetRecentCharts
    \/ GetChartsByDateRange
    \/ GetStatistics
    \/ ClearCharts

Spec == Init /\ [][Next]_vars

\* the chart operations on a database this version created
SpecFresh == InitFresh /\ [][Next]_vars

\* the chart operations on a database holding damaged rows
SpecCorrupt == InitCorrupt /\ [][Next]_vars

NextNotebook ==
    \/ Tick
    \/ SaveChartForNote
    \/ SaveNoteForChart
    \/ GetNotebookEntries
    \/ ClearCharts

SpecNotebook == InitFresh /\ [][NextNotebook]_vars

\* the calculation worker, with and without an engine
InitWorker == \E t \in 0..1 : \E engine \in Engines : Constructed(NoDatabase, t, engine)

NextWorker == CalculateChart

SpecWorker == InitWorker /\ [][NextWorker]_vars

\* the chart detail page and the operations that write charts
NextDetail ==
    \/ OnChartCast
    \/ ShowChartDetail
    \/ SaveChartNotes
    \/ GetChart
    \/ ClearCharts

SpecDetail == InitFresh /\ [][NextDetail]_vars

\* the store while the database file fails
NextFailing ==
    \/ SaveChartForNote
    \/ SaveNoteForChart
    \/ GetChart
    \/ GetRecentCharts
    \/ GetChartsByDateRange
    \/ GetStatistics
    \/ RestoreBackup
    \/ ConnectFault

SpecFailing == InitFresh /\ [][NextFailing]_vars

\* the notebook tables written and read through the store alone
NextNotes ==
    \/ Tick
    \/ SaveNotebookEntry
    \/ GetNotebookEntries

SpecNotes == InitFresh /\ [][NextNotes]_vars

\* the notebook page: its editor and the store calls behind it
NextEditor ==
    \/ Tick
    \/ GetNotebookEntries
    \/ NewEntry
    \/ LoadSelectedEntry
    \/ SaveEntry
    \/ DeleteEntry

SpecEditor == InitFresh /\ [][NextEditor]_vars

\* the editor of the notebook page alone: what it writes to notebook_entries
NextEntries ==
    \/ Tick
    \/ NewEntry
    \/ LoadSelectedEntry
    \/ SaveEntry
    \/ DeleteEntry

SpecEntries == InitFresh /\ [][NextEntries]_vars

\* the chart wheel: it reads the record it is handed, never the database
NextWheel ==
    \/ SetChartData
    \/ PaintEvent

SpecWheel == InitFresh /\ [][NextWheel]_vars

\* the drawing methods of the wheel, each a function of its arguments
NextDraw ==
    \/ DrawHouseCusps
    \/ DrawPlanets
    \/ DrawAspects

SpecDraw == InitFresh /\ [][NextDraw]_vars

\* ==================================================================
\* Properties
\* ==================================================================

\* a text is valid when it is non-empty after trimming
ValidText(s) == strip(s) # <<>>

\* the calls of save_chart whose question and location are both valid
ValidSave(call) ==
    call.op = "save_chart" /\ ValidText(call.question) /\ ValidText(call.location)

\* C1: round trip.  Whenever save_chart, called with a non-empty question
\* and location and a result carrying judgment j and confidence c, returns,
\* the id it returns is not null and get_chart of that id yields a record
\* with that id whose question, location, judgment and confidence are
\* exactly the values passed in.
C1_RoundTrip ==
    (/\ ValidSave(ret)
     /\ ret.raised = ""
     /\ {"judgment", "confidence"} \subseteq DOMAIN ret.result)
    => /\ ret.id # NoId
       /\ get_chart(ret.id) # None
       /\ get_chart(ret.id).id = ret.id
       /\ get_chart(ret.id).question = ret.question
       /\ get_chart(ret.id).location = ret.location
       /\ get_chart(ret.id).judgment = ret.result.judgment
       /\ get_chart(ret.id).confidence = ret.result.confidence

\* a question with a leading blank was saved beside another chart and reads
\* back untouched
C1_Witness ==
    /\ ValidSave(ret)
    /\ ret.raised = ""
    /\ ret.question = <<" ", "Q">>
    /\ ret.result = ResultNo
    /\ Cardinality(charts) = 2
    /\ get_chart(ret.id).question = <<" ", "Q">>
    /\ get_chart(ret.id).confidence = 40

\* C2 (as claimed): save_chart called with a question or a location that is
\* empty after trimming fails, and writes nothing: the stored charts and
\* get_statistics().total_charts are the same before and after the call.
C2_InvalidSaveRejected ==
    [][(ret'.op = "save_chart" /\ ret' # ret /\ ~ValidSave(ret'))
        => /\ ret'.raised # ""
           /\ charts' = charts
           /\ get_statistics'.total_charts = get_statistics.total_charts]_vars

\* the instant a stored timestamp text denotes
InstantOf(ts) == (ts[1] - 1) * SecsPerMonth + (ts[2] - 1) * SecsPerDay + ts[4]

StoredIds == {c.id : c \in charts}

\* a is newer than b: saved at a later instant, or at the same instant and later
Newer(a, b) ==
    \/ InstantOf(a.timestamp) > InstantOf(b.timestamp)
    \/ InstantOf(a.timestamp) = InstantOf(b.timestamp) /\ a.id > b.id

\* every stored chart has a valid question and location
WellFormedStore ==
    \A c \in charts : ValidText(c.question) /\ ValidText(c.location)

\* C3 (as claimed): get_recent_charts(limit) returns at most limit entries
\* (none for a negative limit) and every entry is newer than the entry after
\* it: a later timestamp, or the same timestamp and saved later.  Stated for
\* stores that hold valid charts only.
C3_RecentNewestFirst ==
    (WellFormedStore /\ ret.op = "get_recent_charts")
    => /\ Len(ret.result) <= (IF ret.limit < 0 THEN 0 ELSE ret.limit)
       /\ \A i \in 1..(Len(ret.result) - 1) :
              Newer(ret.result[i], ret.result[i + 1])

\* the charts whose timestamp t satisfies start_date <= t <= end_date; a
\* stored timestamp has no fraction of a second
InRange(start_date, end_date) ==
    {c \in charts :
        /\ \/ start_date.t < InstantOf(c.timestamp)
           \/ start_date.t = InstantOf(c.timestamp) /\ start_date.us = 0
        /\ InstantOf(c.timestamp) <= end_date.t}

\* C4 (as claimed): get_charts_by_date_range(start, end) returns exactly the
\* stored charts with start <= timestamp <= end, each once, in ascending
\* order of timestamp.  Stated for stores that hold valid charts only.
C4_DateRangeInclusive ==
    (WellFormedStore /\ ret.op = "get_charts_by_date_range")
    => /\ {ret.result[i].id : i \in 1..Len(ret.result)}
              = {c.id : c \in InRange(ret.start_date, ret.end_date)}
       /\ Len(ret.result) = Cardinality(InRange(ret.start_date, ret.end_date))
       /\ \A i \in 1..(Len(ret.result) - 1) :
              InstantOf(ret.result[i].timestamp)
                  <= InstantOf(ret.result[i + 1].timestamp)

YesCharts == {c \in charts : c.judgment = "YES"}
NoCharts == {c \in charts : c.judgment = "NO"}

\* C5: success_rate of get_statistics equals YES / (YES + NO) * 100, where
\* YES and NO count the stored charts judged exactly YES and exactly NO (so
\* charts with another judgment enter neither side); it lies in [0, 100] and
\* is 0 when no chart is judged YES or NO.
C5_SuccessRate ==
    ret.op = "get_statistics"
    => LET rate == ret.result.success_rate
           yes == Cardinality(YesCharts)
           judged == Cardinality(YesCharts) + Cardinality(NoCharts)
       IN  /\ rate[2] > 0
           /\ judged > 0 => rate[1] * judged = yes * 100 * rate[2]
           /\ judged = 0 => rate[1] = 0
           /\ 0 <= rate[1]
           /\ rate[1] <= 100 * rate[2]
           /\ ret.result.total_judgments = judged

\* one YES chart beside a chart with another judgment: the rate is 100
C5_Witness ==
    /\ ret.op = "get_statistics"
    /\ Cardinality(YesCharts) = 1
    /\ \E c \in charts : c.judgment \notin {"YES", "NO"}
    /\ ret.result.success_rate = <<100, 1>>
    /\ ret.result.total_charts = 2

\* C6 (as claimed): this_month of get_statistics is the number of stored
\* charts whose timestamp falls in the calendar month of the call, the first
\* day of the month included, and never exceeds total_charts.  Stated for
\* stores that hold valid charts only.
C6_ThisMonthCount ==
    (WellFormedStore /\ ret.op = "get_statistics")
    => /\ ret.result.this_month =
              Cardinality({c \in charts :
                              MonthOf(InstantOf(c.timestamp)) = MonthOf(ret.now)})
       /\ ret.result.this_month <= ret.result.total_charts

\* the charts table was written by the version without the category column
Legacy == "category" \notin columns

\* every stored tags text is empty or decodes
TagsDecode == \A c \in charts : IsEmptyText(c.tags) \/ JsonDecodes(c.tags)

\* C7: on a legacy charts table every read succeeds and puts the rows under
\* "general": every entry of get_recent_charts and get_charts_by_date_range
\* has category "general" (and get_recent_charts with a limit that covers the
\* table returns every row), get_chart of a stored id returns the record with
\* category "general", and get_statistics counts all charts under "general".
C7_LegacyReads ==
    Legacy
    => /\ ret.op = "get_recent_charts"
          => /\ ret.raised = ""
             /\ \A i \in 1..Len(ret.result) : ret.result[i].category = "general"
             /\ (TagsDecode /\ (ret.limit < 0 \/ ret.limit >= Cardinality(charts)))
                => {ret.result[i].id : i \in 1..Len(ret.result)} = StoredIds
       /\ ret.op = "get_charts_by_date_range"
          => /\ ret.raised = ""
             /\ \A i \in 1..Len(ret.result) : ret.result[i].category = "general"
       /\ ret.op = "get_chart"
          => /\ ret.raised = ""
             /\ ret.chart_id \in StoredIds
                => ret.result # None /\ ret.result.category = "general"
       /\ ret.op = "get_statistics"
          => /\ ret.raised = ""
             /\ ret.result.total_charts = Cardinality(charts)
             /\ ret.result.categories =
                    [c \in (IF charts = {} THEN {} ELSE {"general"}) |->
                        Cardinality(charts)]

\* both rows of a legacy table come back from get_recent_charts as "general"
C7_Witness ==
    /\ Legacy
    /\ ret.op = "get_recent_charts"
    /\ Len(ret.result) = 2
    /\ ret.result[1].category = "general"
    /\ ret.result[2].category = "general"

\* C8 (as claimed): on a legacy charts table save_chart with a valid question
\* and location succeeds, returns an id, and get_chart of that id returns the
\* saved record with category "general".
C8_LegacyWrite ==
    (Legacy /\ ValidSave(ret))
    => /\ ret.raised = ""
       /\ ret.id # NoId
       /\ get_chart(ret.id) # None
       /\ get_chart(ret.id).question = ret.question
       /\ get_chart(ret.id).category = "general"

\* C9: get_chart of an id that is not stored, whether it was never assigned
\* or its chart was deleted, returns None and raises nothing.
C9_MissingChartAbsent ==
    (ret.op = "get_chart" /\ ret.chart_id \notin StoredIds)
    => ret.result = None /\ ret.raised = ""

\* the id of a deleted chart is looked up while another chart is stored
C9_Witness ==
    /\ ret.op = "get_chart"
    /\ ret.chart_id \in 1..chartSeq
    /\ ret.chart_id \notin StoredIds
    /\ charts # {}
    /\ ret.result = None

\* C10 (as claimed): deleting charts leaves the notebook alone: every entry
\* (with a title) stored before charts are deleted is still returned by
\* get_notebook_entries afterwards.
C10_DeleteKeepsNotes ==
    [][(ret'.op = "clear_charts" /\ ret'.reply = "Yes" /\ charts # {})
        => \A e \in {x \in entries : ValidText(x.title)} :
              \E r \in get_notebook_entries("")' :
                 \E i \in 1..Len(r) : r[i].id = e.id]_vars

\* a stored text that is present and does not decode
MalformedText(t) == ~IsEmptyText(t) /\ ~JsonDecodes(t)

\* C11: get_chart of a stored row whose chart_data text is malformed returns
\* the record (not None, nothing raised) with an empty chart_data; of a row
\* whose tags text is malformed it returns the record with empty tags; in
\* both cases question, location, judgment and confidence are the row's.
C11_MalformedRead ==
    ret.op = "get_chart"
    => \A row \in FetchChartRows(ret.chart_id) :
          (MalformedText(row.chart_data) \/ MalformedText(row.tags))
          => /\ ret.raised = ""
             /\ "none" \notin DOMAIN ret.result
             /\ MalformedText(row.chart_data) => DOMAIN ret.result.chart_data = {}
             /\ MalformedText(row.tags) => Len(ret.result.tags) = 0
             /\ ret.result.question = row.question
             /\ ret.result.location = row.location
             /\ ret.result.judgment = row.judgment
             /\ ret.result.confidence = row.confidence

\* the row with the malformed chart_data text is read beside a second row
C11_Witness ==
    /\ ret.op = "get_chart"
    /\ Cardinality(charts) = 2
    /\ \E row \in FetchChartRows(ret.chart_id) :
          /\ MalformedText(row.chart_data)
          /\ JsonDecodes(row.tags)
    /\ "none" \notin DOMAIN ret.result
    /\ DOMAIN ret.result.chart_data = {}
    /\ ret.result.question = <<"Q">>
    /\ ret.result.confidence = 40

\* C12 (as claimed): when exactly one stored row has a malformed tags text,
\* get_recent_charts(limit), limit >= 0, still returns min(limit, stored)
\* entries, each the fields of a stored row, the damaged row with empty
\* tags; the result is not empty unless the limit is 0.
C12_PartialAvailability ==
    (/\ ret.op = "get_recent_charts"
     /\ ret.limit >= 0
     /\ Cardinality({c \in charts : MalformedText(c.tags)}) = 1)
    => /\ Len(ret.result) =
              (IF ret.limit < Cardinality(charts) THEN ret.limit ELSE Cardinality(charts))
       /\ \A i \in 1..Len(ret.result) :
              \E c \in charts :
                 /\ ret.result[i].id = c.id
                 /\ ret.result[i].question = c.question
                 /\ ret.result[i].location = c.location
                 /\ ret.result[i].judgment = c.judgment
                 /\ ret.result[i].confidence = c.confidence
                 /\ MalformedText(c.tags) => Len(ret.result[i].tags) = 0
       /\ ret.limit > 0 => Len(ret.result) > 0

\* ---------------------------------------------------------------- notebook
\* C19 (as claimed): no notebook entry with an empty title is ever stored,
\* and a call of save_notebook_entry with an empty title fails and leaves
\* the stored entries as they were.
C19_EmptyTitleRejected ==
    [][/\ \A e \in entries' : e.title # <<>>
       /\ (ret'.op = "save_notebook_entry" /\ ret' # ret /\ ret'.title = <<>>)
          => ret'.raised # "" /\ entries' = entries]_vars

\* C20: get_notebook_entries returns each entry it selects once, the entry
\* modified later before the entry modified earlier; with a category it
\* selects exactly the stored entries of that category, without one it
\* selects every stored entry.
C20_NotebookOrder ==
    ret.op = "get_notebook_entries"
    => LET selected == IF ret.category = "" THEN entries
                       ELSE {e \in entries : e.category = ret.category}
       IN  /\ Len(ret.result) = Cardinality(selected)
           /\ \A e \in selected :
                  \E i \in 1..Len(ret.result) :
                     /\ ret.result[i].id = e.id
                     /\ ret.result[i].title = e.title
                     /\ ret.result[i].category = e.category
                     /\ ret.result[i].modified_date = e.modified_date
           /\ \A i \in 1..(Len(ret.result) - 1) :
                  InstantOf(ret.result[i].modified_date)
                      >= InstantOf(ret.result[i + 1].modified_date)

\* the entry created first was edited after the second was created and is
\* returned first
C20_Witness ==
    /\ ret.op = "get_notebook_entries"
    /\ ret.category = ""
    /\ Len(ret.result) = 2
    /\ ret.result[1].id = 1
    /\ ret.result[2].id = 2
    /\ InstantOf(ret.result[1].modified_date) > InstantOf(ret.result[2].modified_date)
    /\ InstantOf(ret.result[1].created_date) < InstantOf(ret.result[2].created_date)
\* ------------------------------------------------------------ chart wheel
\* the primitives of one kind a painting holds
Prims(p, what) == {i \in 1..Len(p.prims) : p.prims[i].what = what}

\* exactly the placeholder: the ring and the caption, nothing else
IsPlaceholder(p) ==
    /\ Len(p.prims) = 2
    /\ p.prims[1].what = "ring"
    /\ p.prims[2].what = "caption"

\* the record carries no chart_data, or chart_data is None or empty
PayloadAbsentOrEmpty(record) ==
    /\ ~Falsy(record)
    /\ "chart_data" \in DOMAIN record => Falsy(record.chart_data)

\* C13 (as claimed): painting a record whose chart_data is absent or empty
\* raises nothing and leaves exactly the placeholder: the ring and the
\* caption, and no zodiac sector, house ray, planet glyph or aspect chord.
C13_PlaceholderOnly ==
    (painted.op = "paintEvent" /\ PayloadAbsentOrEmpty(painted.record))
    => /\ painted.raised = ""
       /\ IsPlaceholder(painted)
       /\ Prims(painted, "sector") = {}
       /\ Prims(painted, "cusp") = {}
       /\ Prims(painted, "glyph") = {}
       /\ Prims(painted, "chord") = {}

\* the aspect list and the planets a painting was made from
AspectsOf(p) ==
    IF p.op = "draw_aspects" THEN p.record.aspects
    ELSE IF p.op = "paintEvent" /\ ~Falsy(p.record) /\ "chart_data" \in DOMAIN p.record
            /\ ~Falsy(p.record.chart_data)
    THEN Get(p.record.chart_data, "aspects", <<>>)
    ELSE <<>>

PlanetsOf(p) ==
    IF p.op \in {"draw_aspects", "draw_planets"} THEN p.record.planets
    ELSE IF p.op = "paintEvent" /\ ~Falsy(p.record) /\ "chart_data" \in DOMAIN p.record
            /\ ~Falsy(p.record.chart_data)
    THEN Get(p.record.chart_data, "planets", <<>>)
    ELSE <<>>

HousesOf(p) ==
    IF p.op = "draw_house_cusps" THEN p.record.houses
    ELSE IF p.op = "paintEvent" /\ ~Falsy(p.record) /\ "chart_data" \in DOMAIN p.record
            /\ ~Falsy(p.record.chart_data)
    THEN Get(p.record.chart_data, "houses", <<>>)
    ELSE <<>>

\* the aspect names both planets and its applying flag is present and true
FlaggedApplying(aspect) ==
    /\ {"planet1", "planet2", "aspect", "applying"} \subseteq DOMAIN aspect
    /\ aspect.applying = TRUE

\* the chord prim joins the two planets of the aspect in the aspect's colour
ChordFor(prim, aspect, planets) ==
    /\ HasKey(planets, aspect.planet1)
    /\ HasKey(planets, aspect.planet2)
    /\ prim.args = Polar(aspect_radius, Item(planets, aspect.planet1).longitude - 90)
                     \o Polar(aspect_radius, Item(planets, aspect.planet2).longitude - 90)
    /\ prim.pen = Get(aspect_colors, aspect.aspect, "#333333")

\* C14: every aspect chord drawn is the chord of an aspect of the list whose
\* applying flag is present and true: no chord is drawn for an aspect whose
\* flag is false, nor for an aspect that has no flag.
C14_NoSeparatingChord ==
    \A i \in Prims(painted, "chord") :
        \E k \in 1..Len(AspectsOf(painted)) :
            /\ FlaggedApplying(AspectsOf(painted)[k])
            /\ ChordFor(painted.prims[i], AspectsOf(painted)[k], PlanetsOf(painted))

\* draw_aspects drew the one applying aspect of a list that also holds a
\* separating aspect between the same planets
C14_Witness ==
    /\ painted.op = "draw_aspects"
    /\ painted.raised = ""
    /\ painted.record.aspects = <<TrineSeparating, SquareApplying>>
    /\ Cardinality(Prims(painted, "chord")) = 1
    /\ \E i \in Prims(painted, "chord") : painted.prims[i].pen = "#f44336"

\* every planet entry carries a longitude, every aspect all of its fields
WellFormedChart(houses, planets, aspects) ==
    /\ \A i \in 1..Len(planets) : "longitude" \in DOMAIN planets[i].value
    /\ \A k \in 1..Len(aspects) :
          {"planet1", "planet2", "aspect"} \subseteq DOMAIN aspects[k]

\* the aspects that are to be drawn: applying, both planets declared
Drawable(aspects, planets) ==
    {k \in 1..Len(aspects) :
        /\ FlaggedApplying(aspects[k])
        /\ HasKey(planets, aspects[k].planet1)
        /\ HasKey(planets, aspects[k].planet2)}

HouseRays(p, houses) ==
    /\ Cardinality(Prims(p, "cusp")) = Len(houses)
    /\ Cardinality(Prims(p, "house_number")) = Len(houses)
    /\ \A n \in 1..Len(houses) :
          \E i \in Prims(p, "cusp") :
             /\ p.prims[i].args = Center \o Polar(house_radius, houses[n] - 90)
             /\ p.prims[i + 1].what = "house_number"
             /\ p.prims[i + 1].text = ToString(n)

PlanetGlyphs(p, planets) ==
    /\ Cardinality(Prims(p, "glyph")) =
          Cardinality({i \in 1..Len(planets) :
                          planets[i].key \in {"Sun", "Moon", "Mercury", "Venus",
                                              "Mars", "Jupiter", "Saturn"}})
    /\ \A i \in Prims(p, "glyph") : HasKey(planets, p.prims[i].text)

AspectChords(p, aspects, planets) ==
    /\ Cardinality(Prims(p, "chord")) = Cardinality(Drawable(aspects, planets))
    /\ \A k \in Drawable(aspects, planets) :
          \E i \in Prims(p, "chord") : ChordFor(p.prims[i], aspects[k], planets)

\* the painting holds the zodiac ring
ZodiacRing(p) ==
    /\ Cardinality(Prims(p, "sector")) = Len(signs)
    /\ Cardinality(Prims(p, "sign")) = Len(signs)

\* the record holds a chart: a chart_data dict that is not empty
Populated(record) ==
    /\ ~Falsy(record)
    /\ "chart_data" \in DOMAIN record
    /\ ~Falsy(record.chart_data)

\* some applying aspect of the list names a planet that is not declared
NamesUnknownPlanet(aspects, planets) ==
    \E k \in 1..Len(aspects) :
        /\ FlaggedApplying(aspects[k])
        /\ ~HasKey(planets, aspects[k].planet1) \/ ~HasKey(planets, aspects[k].planet2)

\* C15 (as claimed): when an otherwise well-formed chart holds an applying
\* aspect naming an undeclared planet, nothing is raised, that aspect gets
\* no chord while every drawable aspect of the list gets its chord, and the
\* painted wheel still holds the zodiac ring, the house rays and the planet
\* glyphs.
C15_UnknownPlanetSkipped ==
    (/\ painted.op \in {"draw_aspects", "paintEvent"}
     /\ WellFormedChart(HousesOf(painted), PlanetsOf(painted), AspectsOf(painted))
     /\ NamesUnknownPlanet(AspectsOf(painted), PlanetsOf(painted)))
    => /\ painted.raised = ""
       /\ AspectChords(painted, AspectsOf(painted), PlanetsOf(painted))
       /\ painted.op = "paintEvent"
          => /\ ZodiacRing(painted)
             /\ HouseRays(painted, HousesOf(painted))
             /\ PlanetGlyphs(painted, PlanetsOf(painted))

\* C16 (as claimed): the wheel painted for a well-formed, non-empty chart
\* holds one house ray per entry of houses, numbered from 1; one glyph per
\* declared planet of the supported seven and none for another name; one
\* chord per applying aspect whose two planets are declared, supported or
\* not; and no chord when the aspect list is empty.
C16_WheelContents ==
    (/\ painted.op = "paintEvent"
     /\ Populated(painted.record)
     /\ WellFormedChart(HousesOf(painted), PlanetsOf(painted), AspectsOf(painted)))
    => /\ HouseRays(painted, HousesOf(painted))
       /\ PlanetGlyphs(painted, PlanetsOf(painted))
       /\ AspectChords(painted, AspectsOf(painted), PlanetsOf(painted))
       /\ AspectsOf(painted) = <<>> => Prims(painted, "chord") = {}

\* the three drawing methods, each applied to well-formed arguments, draw
\* exactly the rays, glyphs and chords C16 lists and raise nothing
DrawingMethodsExact ==
    WellFormedChart(HousesOf(painted), PlanetsOf(painted), AspectsOf(painted))
    => /\ painted.op = "draw_house_cusps"
          => painted.raised = "" /\ HouseRays(painted, HousesOf(painted))
       /\ painted.op = "draw_planets"
          => painted.raised = "" /\ PlanetGlyphs(painted, PlanetsOf(painted))
       /\ painted.op = "draw_aspects"
          => /\ painted.raised = ""
             /\ AspectChords(painted, AspectsOf(painted), PlanetsOf(painted))

\* C17 (as claimed): when drawing the wheel of a record that carries
\* chart_data raises, the paint call itself raises nothing and leaves exactly
\* the placeholder, not a partly drawn wheel.
C17_RenderFailureAbsorbed ==
    (/\ painted.op = "paintEvent"
     /\ ~Falsy(painted.record)
     /\ "chart_data" \in DOMAIN painted.record
     /\ draw_chart_wheel(QPainter, painted.record).raised # "")
    => /\ painted.raised = ""
       /\ IsPlaceholder(painted)

\* C18 (as claimed): the renderer is Empty until a record is assigned;
\* set_chart_data makes the given record the held one and requests a
\* repaint; a paint in the Empty state shows the placeholder, a paint of a
\* held well-formed chart shows the full wheel and no placeholder, and the
\* placeholder is shown only while no chart is held.
C18_TwoStates ==
    [][/\ canvas'.chart_data # canvas.chart_data => canvas'.update
       /\ painted'.op = "paintEvent"
          => /\ painted'.raised = ""
             /\ Falsy(painted'.record) => IsPlaceholder(painted')
             /\ (Populated(painted'.record)
                 /\ WellFormedChart(HousesOf(painted'), PlanetsOf(painted'),
                                    AspectsOf(painted')))
                => /\ ZodiacRing(painted')
                   /\ Prims(painted', "caption") = {}]_vars

C30_CreateOnceThenUpdate ==
    [][/\ (SaveEntry /\ entrySeq' # entrySeq)
            => /\ Cardinality(entries') = Cardinality(entries) + 1
               /\ current_entry_id' = entrySeq'
       /\ (SaveEntry /\ current_entry_id # NoId
                     /\ ret'.op = "save_entry" /\ ret'.id = current_entry_id)
            => /\ {e.id : e \in entries'} = {e.id : e \in entries}
               /\ entrySeq' = entrySeq
               /\ current_entry_id' = current_entry_id
       /\ (DeleteEntry /\ entries' # entries)
            => /\ entries' = {e \in entries : e.id # current_entry_id}
               /\ current_entry_id' = NoId]_vars

\* -------------------------------------------------------------- chart ids
\* C21: the ids of the stored charts are pairwise different; a save_chart
\* that returns hands out an id that no stored chart had and that the row it
\* wrote carries; and a row that appears in the table is always that new
\* row, so no stored chart ever comes to carry another id.
C21_IdsUniqueImmutable ==
    [][/\ \A r \in charts' : \A s \in charts' : r.id = s.id => r = s
       /\ chartSeq' # chartSeq
            => /\ ret'.op = "save_chart"
               /\ ret'.id # NoId
               /\ ret'.id \notin {r.id : r \in charts}
               /\ \E r \in charts' \ charts : r.id = ret'.id
       /\ \A s \in charts' \ charts :
            /\ chartSeq' # chartSeq
            /\ s.id = ret'.id]_vars

\* a chart was saved beside a chart the database already held
C21_Witness ==
    /\ ret.op = "save_chart"
    /\ ret.raised = ""
    /\ ret.id = 2
    /\ {r.id : r \in charts} = {1, 2}

\* C28: the AUTOINCREMENT sequence never goes back, not even over the bulk
\* clear; no stored chart and no id save_chart returned lies above it; and
\* every save_chart that returns hands out an id above the sequence and
\* moves the sequence to it.  Each id is therefore greater than every id
\* handed out before, deleted charts included.
C28_IdsNeverReused ==
    [][/\ chartSeq' >= chartSeq
       /\ \A r \in charts \cup charts' : r.id <= chartSeq'
       /\ (ret.op = "save_chart" /\ ret.raised = "") => ret.id <= chartSeq
       /\ (ret'.op = "save_chart" /\ ret'.raised = "" /\ ret' # ret)
            => /\ ret'.id > chartSeq
               /\ chartSeq' = ret'.id]_vars

\* after the bulk clear deleted chart 1, the next chart got id 2
C28_Witness ==
    /\ ret.op = "save_chart"
    /\ ret.raised = ""
    /\ ret.id = 2
    /\ {r.id : r \in charts} = {2}

\* ------------------------------------------------------ storage failures
\* the operations of ChartDatabase
StoreOps ==
    {"save_chart", "get_chart", "get_recent_charts", "get_charts_by_date_range",
     "get_statistics", "save_notebook_entry", "get_notebook_entries"}

\* C24 (as claimed): when a store operation has returned or raised, the
\* connection it opened is not open any more.
C24_ConnectionReleased ==
    ret.op \in StoreOps => ret.conn # "open"

\* the statistics of an empty database
ZeroStatistics ==
    [total_charts |-> 0, this_month |-> 0, success_rate |-> <<0, 1>>,
     categories |-> EmptyDict, total_judgments |-> 0]

\* C26 (as claimed): a call made while the database file fails does not
\* raise and yields the empty list (get_recent_charts,
\* get_charts_by_date_range), None (get_chart) or the all-zero statistics
\* (get_statistics) when it is a read, and raises, returns no id and writes
\* nothing when it is save_chart or save_notebook_entry.
C26_FailureHandling ==
    [][(storage # "ok" /\ storage' = storage /\ ret' # ret)
        => /\ ret'.op \in {"get_recent_charts", "get_charts_by_date_range"}
                => ret'.raised = "" /\ ret'.result = <<>>
           /\ ret'.op = "get_chart"
                => ret'.raised = "" /\ ret'.result = None
           /\ ret'.op = "get_statistics"
                => ret'.raised = "" /\ ret'.result = ZeroStatistics
           /\ ret'.op \in {"save_chart", "save_notebook_entry"}
                => /\ ret'.raised # ""
                   /\ ret'.id = NoId
                   /\ charts' = charts
                   /\ entries' = entries]_vars

\* ----------------------------------------------------- chart detail page
\* C22 (as claimed): when save_chart_notes has reported success for the
\* loaded chart, get_chart of that chart returns the notes that were saved.
C22_NotesSaved ==
    (/\ ret.op = "save_chart_notes"
     /\ ret.reported = "Success"
     /\ get_chart(ret.id) # None)
    => get_chart(ret.id).notes = ret.notes

\* the fixed set of judgment labels
Judgments == {"YES", "NO", "UNCLEAR", "NOT RADICAL", "ERROR", "UNKNOWN"}

\* C23 (as claimed): every stored chart has a judgment of the fixed set and
\* a confidence in 0..100, whatever result was passed to save_chart; a
\* result without judgment is stored as UNKNOWN, one without confidence as 0.
C23_JudgmentConfidenceDomain ==
    /\ \A r \in charts :
          /\ r.judgment \in Judgments
          /\ r.confidence \in 0..100
    /\ (ret.op = "save_chart" /\ ret.raised = "")
          => \A r \in charts :
                r.id = ret.id
                => /\ "judgment" \notin DOMAIN ret.result => r.judgment = "UNKNOWN"
                   /\ "confidence" \notin DOMAIN ret.result => r.confidence = 0

\* C25: across every step, a chart that get_chart finds before and after
\* the step has the same judgment, confidence and chart_data.
C25_JudgmentFrame ==
    [][\A id \in ChartIds :
          (get_chart(id) # None /\ get_chart(id)' # None)
          => /\ get_chart(id)'.judgment = get_chart(id).judgment
             /\ get_chart(id)'.confidence = get_chart(id).confidence
             /\ get_chart(id)'.chart_data = get_chart(id).chart_data]_vars

\* notes were saved, with success reported, for one of two stored charts
C25_Witness ==
    /\ ret.op = "save_chart_notes"
    /\ ret.reported = "Success"
    /\ Cardinality(charts) = 2
    /\ get_chart(ret.id) # None
    /\ get_chart(ret.id).judgment = "NOT RADICAL"

\* ---------------------------------------------------- calculation worker
\* the progress messages in the order the worker emits them
ProgressOrder ==
    <<"Initializing calculation...", "Validating inputs...", "Calculating chart...",
      "Processing results...", "Calculation complete!">>

Terminal == {"calculation_finished", "calculation_error"}

\* C29: a call of calculate_chart emits exactly one terminal signal, as its
\* last signal; calculation_finished only with an engine, a question and a
\* location that are non-empty after trimming and an engine result that is a
\* dict with a judgment; the engine is not called without an engine, a
\* question and a location; the progress messages are an initial part of the
\* fixed order; and "Calculation complete!" comes right before
\* calculation_finished.
C29_OneTerminalSignal ==
    ret.op = "calculate_chart"
    => LET sig == worker.signals
           n == Len(sig)
           valid == /\ worker.engine # "None"
                    /\ strip(ret.question) # <<>>
                    /\ strip(Get(ret.settings, "location", <<>>)) # <<>>
       IN  /\ n >= 2
           /\ sig[n].signal \in Terminal
           /\ \A i \in 1..(n - 1) : sig[i].signal = "calculation_progress"
           /\ n - 1 <= Len(ProgressOrder)
           /\ \A i \in 1..(n - 1) : sig[i].text = ProgressOrder[i]
           /\ sig[n].signal = "calculation_finished"
                => /\ valid
                   /\ ret.judged
                   /\ ret.outcome.kind = "dict"
                   /\ "judgment" \in DOMAIN ret.outcome.value
                   /\ ret.result = ret.outcome.value
                   /\ sig[n - 1].text = "Calculation complete!"
           /\ ~valid => ~ret.judged

\* a call with an engine and a question with a leading blank finished, and
\* another kind of call ended in calculation_error
C29_Witness ==
    /\ ret.op = "calculate_chart"
    /\ ret.question = <<" ", "Q">>
    /\ Len(worker.signals) = 6
    /\ worker.signals[6].signal = "calculation_finished"
    /\ ret.result = ResultYes

====
